---- MODULE Spec2Model ----
(***************************************************************************)
(* The PDF page manager: the page ledger (PDFPageManager), ingestion of    *)
(* uploaded files (processFiles / loadPDF / addPageToGrid), the thumbnail  *)
(* grid with its drag-and-drop reordering, and the export pipeline         *)
(* (handleMerge / handleExtract) with its per-call source-document cache.  *)
(*                                                                         *)
(* Every handler is modelled from src/unnamed/part_000.  An async handler  *)
(* is one action per stretch of code between two suspension points (an     *)
(* await on a library promise); other handlers run in between.             *)
(***************************************************************************)
EXTENDS Integers, Sequences, FiniteSets, TLC

\* ------------------------------------------------------------------ bounds
\* files a session uploads in all
MaxFiles == 2
\* pages of one uploaded file
MaxPages == 2
\* records a session creates in all (caps the id counter)
MaxRecords == 3
\* user gestures (uploads, clicks, drags) of a session
MaxGestures == 3
\* calls of a ledger-only session (LedgerSpec)
MaxCalls == 5

\* ------------------------------------------------------- program constants
\* the step of the rotate button
RotateStep == 90
\* rotation wraps at a full turn
FullTurn == 360

\* JS undefined / null, as a page id, a file and an index
Undefined == 0
NullIndex == -1

VARIABLES
    pages,          \* pageManager.pages: the ids of the records, in sequence order
    recs,           \* the record objects, by id: fields of each PageRecord
    nextId,         \* pageManager.nextId
    originalFiles,  \* pageManager.originalFiles: the uploaded File objects
    files,          \* every File the session was given: its page count (0: undecodable)
    mergeFilename,  \* mergeFilename.value: 0 when blank, else the file it names
    extractFilename,\* extractFilename.value
    grid,           \* gridContainer.children: the page ids of the thumbnails
    draggedElement, \* the dragged thumbnail's page id, or Undefined
    draggedIndex,   \* its position in the grid at dragstart, or NullIndex
    dragPhase,      \* the browser's drag protocol: none, dragging, dropped
    uploads,        \* the processFiles invocations, each with its position
    merge,          \* the handleMerge invocation in progress and its locals
    extract,        \* the handleExtract invocation in progress and its locals
    mergeBtnDisabled,
    extractBtnDisabled,
    outcome,        \* what the latest step showed, delivered or ended
    gestures,       \* user gestures so far
    call            \* LedgerSpec: the latest direct call of a ledger method

vars == <<pages, recs, nextId, originalFiles, files, mergeFilename, extractFilename,
          grid, draggedElement, draggedIndex, dragPhase, uploads, merge, extract,
          mergeBtnDisabled, extractBtnDisabled, outcome, gestures, call>>

ledgerVars == <<pages, recs, nextId, originalFiles>>
dragVars == <<draggedElement, draggedIndex, dragPhase>>
exportVars == <<merge, extract, mergeBtnDisabled, extractBtnDisabled>>
nameVars == <<mergeFilename, extractFilename>>

\* ------------------------------------------------------------ sequences
Range(s) == {s[k] : k \in 1..Len(s)}

RECURSIVE SelectSeqBy(_, _)
\* Array.prototype.filter over ids: keeps order
SelectSeqBy(s, keep) ==
    IF s = <<>> THEN <<>>
    ELSE (IF Head(s) \in keep THEN <<Head(s)>> ELSE <<>>) \o SelectSeqBy(Tail(s), keep)

\* Array.prototype.findIndex / indexOf, 0-based, -1 when absent
FindIndex(s, x) ==
    IF \E k \in 1..Len(s) : s[k] = x
    THEN (CHOOSE k \in 1..Len(s) : s[k] = x /\ \A m \in 1..(k-1) : s[m] # x) - 1
    ELSE -1

\* the relative start of Array.prototype.splice, clamped as the language does
ClampStart(start, len) ==
    IF start < 0 THEN (IF len + start < 0 THEN 0 ELSE len + start)
    ELSE IF start > len THEN len ELSE start

\* splice(start, 1): the array left
SpliceOut(s, start) ==
    LET st == ClampStart(start, Len(s))
    IN IF st < Len(s) THEN SubSeq(s, 1, st) \o SubSeq(s, st + 2, Len(s)) ELSE s

\* splice(start, 1): the removed element, undefined when nothing is removed
SpliceTaken(s, start) ==
    LET st == ClampStart(start, Len(s))
    IN IF st < Len(s) THEN s[st + 1] ELSE Undefined

\* splice(start, 0, x)
SpliceIn(s, start, x) ==
    LET st == ClampStart(start, Len(s))
    IN SubSeq(s, 1, st) \o <<x>> \o SubSeq(s, st + 1, Len(s))

\* ------------------------------------------------------- PDFPageManager
\* (mutant of AddPageId) the id taken from the length of the list
AddPageIdFromLength(next) == Len(pages) + 1

\* addPage: the id it hands out
AddPageId(next) == next

\* addPage: the record it builds (rotation: pageData.rotation || 0)
NewRecord(file, fileIndex, pageNum, rotation) ==
    [file |-> file, fileIndex |-> fileIndex, originalPageNum |-> pageNum,
     rotation |-> rotation, selected |-> FALSE]

\* (mutant of RemovePage) the id taken for a position: this.pages.splice(id - 1, 1)
RemovePageAt(ps, id) == SpliceOut(ps, id - 1)

\* removePage: this.pages.filter(p => p.id !== id)
RemovePage(ps, id) == SelectSeqBy(ps, Range(ps) \ {id})

\* getPage: whether find() yields a record
HasPage(ps, id) == id \in Range(ps)

\* the remainder operator of the language: the sign of the dividend
JsRem(a, b) == IF a >= 0 THEN a % b ELSE -((-a) % b)

\* (mutant of RotateValue) the sum not wrapped
RotateValueUnwrapped(rotation, degrees) == rotation + degrees

\* rotatePage: (page.rotation + degrees) % 360
RotateValue(rotation, degrees) == JsRem(rotation + degrees, FullTurn)

\* (mutant of GetSelectedPages) the selected pages, the last one first
GetSelectedPagesReversed(ps, rs) ==
    LET sel == SelectSeqBy(ps, {id \in Range(ps) \cap DOMAIN rs : rs[id].selected})
    IN [k \in 1..Len(sel) |-> sel[Len(sel) + 1 - k]]

\* getSelectedPages: this.pages.filter(p => p.selected)
GetSelectedPages(ps, rs) == SelectSeqBy(ps, {id \in Range(ps) \cap DOMAIN rs : rs[id].selected})

\* (mutant of ReorderPages) the second splice deletes one entry: splice(newIndex, 1, movedPage)
ReorderPagesReplacing(ps, oldIndex, newIndex) ==
    SpliceIn(SpliceOut(SpliceOut(ps, oldIndex), newIndex), newIndex, SpliceTaken(ps, oldIndex))

\* reorderPages: splice the moved page out, splice it in
ReorderPages(ps, oldIndex, newIndex) ==
    SpliceIn(SpliceOut(ps, oldIndex), newIndex, SpliceTaken(ps, oldIndex))

\* --------------------------------------------------------------- outcomes
NoAlert == [op |-> "none", msg |-> "none", page |-> 0]
NoDownload == [kind |-> "none", base |-> [file |-> 0, default |-> ""], suffix |-> "",
               num |-> 0, ext |-> "", doc |-> <<>>, zip |-> <<>>]

\* the locals of an export that is not running (start: the ids in the chosen array
\* at the click; ids: the ids of the pages copied so far)
IdleExport ==
    [pc |-> "idle", live |-> FALSE, list |-> <<>>, single |-> FALSE, uniq |-> <<>>,
     j |-> 0, loaded |-> <<>>, loads |-> 0, i |-> 0, cur |-> Undefined,
     src |-> Undefined, doc |-> <<>>, zip |-> <<>>, created |-> 0, quiet |-> TRUE,
     start |-> <<>>, ids |-> <<>>]

\* what a step shows: the handler that ran, its alert(), its downloadFile(), and
\* the locals of the export it ended
Outcome(by, alert, download, kind, locals) ==
    [by |-> by, alert |-> alert, download |-> download, ended |-> kind, locals |-> locals]

\* a step that shows nothing
Quiet == Outcome("", NoAlert, NoDownload, "none", IdleExport)

\* an export button was clicked and the export began
Began(by) == Outcome(by, NoAlert, NoDownload, "none", IdleExport)

\* -------------------------------------------------------------------- heap
\* the records an export invocation still refers to
Held(e) == IF e.pc = "idle" THEN {} ELSE (Range(e.list) \cup {e.cur}) \ {Undefined}

\* records nothing refers to any more are dropped
Collect(rs, ps, m, e) ==
    [id \in (DOMAIN rs) \cap (Range(ps) \cup Held(m) \cup Held(e)) |-> rs[id]]

\* another handler ran while export e was suspended
Disturb(e) == IF e.pc = "idle" THEN e ELSE [e EXCEPT !.quiet = FALSE]

\* this.pages was replaced (removePage): an export whose array was the ledger's
\* own array keeps the old array
Detach(e, ps) ==
    IF e.pc # "idle" /\ e.live THEN [e EXCEPT !.live = FALSE, !.list = ps] ELSE e

\* ------------------------------------------------- direct calls (LedgerSpec)
\* the latest direct call of a PDFPageManager method: its arguments, whether it
\* threw, how many calls were made, the ids removed since the last clear(), and
\* for rotatePage how many calls in a row had these arguments (streak) and the
\* records before the first of them (before)
NoCall == [op |-> "none", a |-> 0, b |-> 0, threw |-> FALSE, n |-> 0, retired |-> {},
           streak |-> 0, before |-> <<>>]

Called(op, a, b, threw) ==
    [op |-> op, a |-> a, b |-> b, threw |-> threw, n |-> call.n + 1, retired |-> call.retired,
     streak |-> 0, before |-> <<>>]

\* a rotatePage(id, degrees) call that follows fewer than a full turn of calls
\* with the same arguments goes on with their streak
Streak(id, degrees) ==
    IF /\ call.op = "rotatePage" /\ call.a = id /\ call.b = degrees /\ ~call.threw
       /\ call.streak * RotateStep < FullTurn
    THEN [streak |-> call.streak + 1, before |-> call.before]
    ELSE [streak |-> 1, before |-> recs]

\* ------------------------------------------------------------------- Init
Init ==
    /\ pages = <<>>
    /\ recs = <<>>
    /\ nextId = 1
    /\ originalFiles = <<>>
    /\ files = <<>>
    /\ mergeFilename = 0
    /\ extractFilename = 0
    /\ grid = <<>>
    /\ draggedElement = Undefined
    /\ draggedIndex = NullIndex
    /\ dragPhase = "none"
    /\ uploads = <<>>
    /\ merge = IdleExport
    /\ extract = IdleExport
    /\ mergeBtnDisabled = FALSE
    /\ extractBtnDisabled = FALSE
    /\ outcome = Quiet
    /\ gestures = 0
    /\ call = NoCall

\* a user gesture is possible: the pointer is not in a drag, the session's budget
UserCan == dragPhase = "none" /\ gestures < MaxGestures

\* ---------------------------------------------------------------- uploads
\* a batch the user can hand over: per file -1 (not a PDF), 0 (a PDF whose bytes
\* cannot be decoded) or its page count
BatchInputs == UNION {[1..n -> -1..MaxPages] : n \in 0..MaxFiles}

RECURSIVE SumSeq(_)
SumSeq(s) == IF s = <<>> THEN 0 ELSE (IF Head(s) > 0 THEN Head(s) ELSE 0) + SumSeq(Tail(s))

\* processFiles: the index loadPDF gets for the file at position k (1-based) of a
\* batch: the loop counter of the batch
BatchFileIndex(k) == k - 1

\* (mutant of InvalidFiles) only the first file's type is looked at
InvalidFilesFirstOnly(batch) == {k \in {1} \cap DOMAIN batch : batch[k] = -1}

\* files.filter(f => !f.type.includes('pdf')): the positions of the non-PDF files
InvalidFiles(batch) == {k \in 1..Len(batch) : batch[k] = -1}

\* processFiles, to its first suspension (await file.arrayBuffer() in loadPDF)
ProcessFiles(batch) ==
    /\ UserCan
    /\ Len(files) + Len(batch) <= MaxFiles
    /\ (nextId - 1) + SumSeq(batch) <= MaxRecords
    /\ gestures' = gestures + 1
    /\ UNCHANGED <<grid, dragVars, mergeBtnDisabled, extractBtnDisabled, call,
                   pages, recs, nextId>>
    /\ IF InvalidFiles(batch) # {}
       THEN /\ outcome' = Outcome("", [op |-> "upload", msg |-> "notpdf", page |-> 0],
                                  NoDownload, "none", IdleExport)
            /\ UNCHANGED <<originalFiles, files, nameVars, uploads, merge, extract>>
       ELSE IF Len(batch) = 0
       THEN /\ outcome' = Quiet
            /\ UNCHANGED <<originalFiles, files, nameVars, uploads, merge, extract>>
       ELSE LET ids == [k \in 1..Len(batch) |-> Len(files) + k]
            IN /\ files' = files \o batch
               /\ mergeFilename' = ids[1]
               /\ extractFilename' = ids[1]
               /\ originalFiles' = Append(originalFiles, ids[1])
               /\ uploads' = Append(uploads, [files |-> ids, k |-> 1, pageNum |-> 1,
                                              pc |-> "load", page |-> Undefined])
               /\ merge' = Disturb(merge)
               /\ extract' = Disturb(extract)
               /\ outcome' = Quiet

\* (mutant of Undecodable) the decoder takes any bytes
UndecodableNever(f) == FALSE

\* pdfjsLib.getDocument({ data }).promise rejects for file f
Undecodable(f) == files[f] = 0

\* loadPDF: the file is decoded and page pageNum fetched; addPage, and addPageToGrid
\* to its suspension (await renderPage).  Undecodable bytes: loadPDF rethrows and
\* processFiles ends there.
LoadPDF(b) ==
    /\ uploads[b].pc = "load"
    /\ LET u == uploads[b]
           f == u.files[u.k]
       IN IF Undecodable(f)
          THEN /\ uploads' = [uploads EXCEPT ![b].pc = "failed"]
               /\ outcome' = Quiet
               /\ UNCHANGED <<ledgerVars, merge, extract>>
          ELSE /\ pages' = Append(pages, AddPageId(nextId))
               /\ recs' = [id \in DOMAIN recs \cup {AddPageId(nextId)} |->
                             IF id = AddPageId(nextId)
                             THEN NewRecord(f, BatchFileIndex(u.k), u.pageNum, 0)
                             ELSE recs[id]]
               /\ nextId' = nextId + 1
               /\ uploads' = [uploads EXCEPT ![b].pc = "render", ![b].page = AddPageId(nextId)]
               /\ merge' = Disturb(merge)
               /\ extract' = Disturb(extract)
               /\ outcome' = Quiet
               /\ UNCHANGED originalFiles
    /\ UNCHANGED <<files, nameVars, grid, dragVars, mergeBtnDisabled, extractBtnDisabled,
                   gestures, call>>

\* addPageToGrid after the render: the thumbnail is appended; then loadPDF's next
\* page, or processFiles' next file (pushed onto originalFiles), or the end
AddPageToGrid(b) ==
    /\ uploads[b].pc = "render"
    /\ LET u == uploads[b]
           f == u.files[u.k]
       IN /\ grid' = Append(grid, u.page)
          /\ IF u.pageNum < files[f]
             THEN /\ uploads' = [uploads EXCEPT ![b].pc = "load", ![b].pageNum = u.pageNum + 1,
                                                ![b].page = Undefined]
                  /\ UNCHANGED <<originalFiles, merge, extract>>
             ELSE IF u.k < Len(u.files)
             THEN /\ uploads' = [uploads EXCEPT ![b].pc = "load", ![b].pageNum = 1,
                                                ![b].k = u.k + 1, ![b].page = Undefined]
                  /\ originalFiles' = Append(originalFiles, u.files[u.k + 1])
                  /\ merge' = Disturb(merge)
                  /\ extract' = Disturb(extract)
             ELSE /\ uploads' = [uploads EXCEPT ![b].pc = "done", ![b].page = Undefined]
                  /\ UNCHANGED <<originalFiles, merge, extract>>
    /\ outcome' = Quiet
    /\ UNCHANGED <<pages, recs, nextId, files, nameVars, dragVars, mergeBtnDisabled,
                   extractBtnDisabled, gestures, call>>

\* ------------------------------------------------------- thumbnail handlers
\* a record with one field changed
WithRotation(rs, id, degrees) ==
    [rs EXCEPT ![id].rotation = RotateValue(rs[id].rotation, degrees)]

\* rotate button: pageManager.rotatePage(pageObj.id, 90), then the re-render
ClickRotate(id) ==
    /\ UserCan
    /\ id \in Range(grid)
    /\ gestures' = gestures + 1
    /\ recs' = IF HasPage(pages, id) THEN WithRotation(recs, id, RotateStep) ELSE recs
    /\ merge' = Disturb(merge)
    /\ extract' = Disturb(extract)
    /\ outcome' = Quiet
    /\ UNCHANGED <<pages, nextId, originalFiles, files, nameVars, grid, dragVars, uploads,
                   mergeBtnDisabled, extractBtnDisabled, call>>

\* checkbox: pageManager.toggleSelection(pageObj.id)
ChangeCheckbox(id) ==
    /\ UserCan
    /\ id \in Range(grid)
    /\ gestures' = gestures + 1
    /\ recs' = IF HasPage(pages, id) THEN [recs EXCEPT ![id].selected = ~recs[id].selected]
               ELSE recs
    /\ merge' = Disturb(merge)
    /\ extract' = Disturb(extract)
    /\ outcome' = Quiet
    /\ UNCHANGED <<pages, nextId, originalFiles, files, nameVars, grid, dragVars, uploads,
                   mergeBtnDisabled, extractBtnDisabled, call>>

\* handleSelectAll: pageManager.selectAll(checked)
HandleSelectAll(checked) ==
    /\ UserCan
    /\ gestures' = gestures + 1
    /\ recs' = [id \in DOMAIN recs |->
                  IF id \in Range(pages) THEN [recs[id] EXCEPT !.selected = checked]
                  ELSE recs[id]]
    /\ merge' = Disturb(merge)
    /\ extract' = Disturb(extract)
    /\ outcome' = Quiet
    /\ UNCHANGED <<pages, nextId, originalFiles, files, nameVars, grid, dragVars, uploads,
                   mergeBtnDisabled, extractBtnDisabled, call>>

\* delete button: pageManager.removePage(pageObj.id); pageDiv.remove()
ClickDelete(id) ==
    /\ UserCan
    /\ id \in Range(grid)
    /\ gestures' = gestures + 1
    /\ pages' = RemovePage(pages, id)
    /\ grid' = RemovePage(grid, id)
    /\ merge' = Disturb(Detach(merge, pages))
    /\ extract' = Disturb(Detach(extract, pages))
    /\ recs' = Collect(recs, pages', merge', extract')
    /\ outcome' = Quiet
    /\ UNCHANGED <<nextId, originalFiles, files, nameVars, dragVars, uploads,
                   mergeBtnDisabled, extractBtnDisabled, call>>

\* handleDragStart
HandleDragStart(id) ==
    /\ UserCan
    /\ id \in Range(grid)
    /\ gestures' = gestures + 1
    /\ draggedElement' = id
    /\ draggedIndex' = FindIndex(grid, id)
    /\ dragPhase' = "dragging"
    /\ outcome' = Quiet
    /\ UNCHANGED <<ledgerVars, files, nameVars, grid, uploads, exportVars, call>>

\* dropTarget.after(el) / dropTarget.before(el) on the grid's children
MoveInGrid(g, el, target, after) ==
    LET rest == RemovePage(g, el)
        t == FindIndex(rest, target)
    IN IF after THEN SpliceIn(rest, t + 1, el) ELSE SpliceIn(rest, t, el)

\* handleDrop on the thumbnail of page `target`
HandleDrop(target) ==
    /\ dragPhase = "dragging"
    /\ target \in Range(grid)
    /\ LET dropIndex == FindIndex(grid, target)
       IN IF draggedElement # Undefined /\ draggedElement # target
          THEN /\ pages' = ReorderPages(pages, draggedIndex, dropIndex)
               /\ grid' = MoveInGrid(grid, draggedElement, target, draggedIndex < dropIndex)
               /\ merge' = Disturb(merge)
               /\ extract' = Disturb(extract)
          ELSE UNCHANGED <<pages, grid, merge, extract>>
    /\ dragPhase' = "dropped"
    /\ outcome' = Quiet
    /\ UNCHANGED <<recs, nextId, originalFiles, files, nameVars, draggedElement, draggedIndex,
                   uploads, mergeBtnDisabled, extractBtnDisabled, gestures, call>>

\* handleDragEnd
HandleDragEnd ==
    /\ dragPhase \in {"dragging", "dropped"}
    /\ draggedElement' = Undefined
    /\ draggedIndex' = NullIndex
    /\ dragPhase' = "none"
    /\ outcome' = Quiet
    /\ UNCHANGED <<ledgerVars, files, nameVars, grid, uploads, exportVars, gestures, call>>

\* ---------------------------------------------------------- export pipeline
\* the array an export iterates: getSelectedPages() is a fresh array,
\* getAllPages() is the ledger's own array
EffList(e) == IF e.live THEN pages ELSE e.list

\* selectedPages.length > 0 ? selectedPages : pageManager.getAllPages()
ChosenPages(ps, rs) ==
    IF Len(GetSelectedPages(ps, rs)) > 0 THEN GetSelectedPages(ps, rs) ELSE ps

\* (mutant of NothingToExport) the length check left out
NothingToExportSkipped(ps, rs) == FALSE

\* pagesToMerge.length === 0
NothingToExport(ps, rs) == Len(ChosenPages(ps, rs)) = 0

\* (mutant of Chosen) the selection ignored: always getAllPages()
ChosenAll(ps, rs) == [IdleExport EXCEPT !.list = <<>>, !.live = TRUE, !.start = ps]

\* the export's locals right after the choice
Chosen(ps, rs) ==
    IF Len(GetSelectedPages(ps, rs)) > 0
    THEN [IdleExport EXCEPT !.list = GetSelectedPages(ps, rs), !.live = FALSE,
                            !.start = GetSelectedPages(ps, rs)]
    ELSE [IdleExport EXCEPT !.list = <<>>, !.live = TRUE, !.start = ps]

RECURSIVE Dedup(_, _)
\* [...new Set(xs)]: first occurrences, in order
Dedup(xs, seen) ==
    IF xs = <<>> THEN <<>>
    ELSE IF Head(xs) \in seen THEN Dedup(Tail(xs), seen)
    ELSE <<Head(xs)>> \o Dedup(Tail(xs), seen \cup {Head(xs)})

\* (mutant of UniqueFileIndices) no Set: one entry per chosen page
AllFileIndices(list, rs) == [k \in 1..Len(list) |-> rs[list[k]].fileIndex]

\* uniqueFileIndices
UniqueFileIndices(list, rs) == Dedup([k \in 1..Len(list) |-> rs[list[k]].fileIndex], {})

\* loadedPdfs.get(fileIndex): the cached document (the file it was loaded from)
MapGet(loaded, fileIndex) ==
    IF \E k \in 1..Len(loaded) : loaded[k][1] = fileIndex
    THEN loaded[CHOOSE k \in 1..Len(loaded) : loaded[k][1] = fileIndex][2]
    ELSE Undefined

\* loadedPdfs.set(fileIndex, sourcePdf)
MapSet(loaded, fileIndex, doc) ==
    IF \E k \in 1..Len(loaded) : loaded[k][1] = fileIndex
    THEN [k \in 1..Len(loaded) |-> IF loaded[k][1] = fileIndex THEN <<fileIndex, doc>> ELSE loaded[k]]
    ELSE Append(loaded, <<fileIndex, doc>>)

\* pageManager.originalFiles[fileIndex]
OriginalFile(fileIndex) ==
    IF fileIndex + 1 \in 1..Len(originalFiles) THEN originalFiles[fileIndex + 1] ELSE Undefined

\* copyPages(sourcePdf, [originalPageNum - 1]) can yield a page
CopyPossible(src, rec) ==
    /\ src # Undefined
    /\ rec.originalPageNum - 1 >= 0
    /\ rec.originalPageNum - 1 < files[src]

\* the copied page, with setRotation applied when page.rotation !== 0
CopiedPage(src, rec) ==
    [file |-> src, page |-> rec.originalPageNum, setRotation |-> rec.rotation # 0,
     degrees |-> IF rec.rotation # 0 THEN rec.rotation ELSE 0]

\* field.value.trim() || fallback
BaseName(field, fallback) ==
    IF field = 0 THEN [file |-> 0, default |-> fallback] ELSE [file |-> field, default |-> ""]

\* downloadFile(pdfBytes, `${filename}.pdf`)
PdfDownload(kind, base, doc) ==
    [kind |-> kind, base |-> base, suffix |-> "", num |-> 0, ext |-> "pdf",
     doc |-> doc, zip |-> <<>>]

\* `${filename}_page-${pageIndex + 1}.pdf`
PageFileName(base, pageIndex) ==
    [base |-> base, suffix |-> "_page-", num |-> pageIndex + 1, ext |-> "pdf"]

\* alert(`Error ...: ${error.message}`); page: the N of "Failed on page N", 0 if none
FailedAlert(op, page) == [op |-> op, msg |-> "failed", page |-> page]

\* the first statements of an iteration of a copy loop: page = list[i],
\* sourcePdf = loadedPdfs.get(page.fileIndex), to the await on copyPages
AtPage(e, list, i) ==
    [e EXCEPT !.i = i, !.cur = list[i + 1],
              !.src = MapGet(e.loaded, recs[list[i + 1]].fileIndex)]

\* ------------------------------------------------------------------ merge
\* handleMerge, to its first suspension (await PDFDocument.create())
HandleMerge ==
    /\ UserCan
    /\ ~mergeBtnDisabled
    /\ merge.pc = "idle"
    /\ gestures' = gestures + 1
    /\ IF NothingToExport(pages, recs)
       THEN /\ outcome' = Outcome("handleMerge", [op |-> "merge", msg |-> "nopages", page |-> 0],
                                  NoDownload, "none", IdleExport)
            /\ UNCHANGED <<merge, mergeBtnDisabled>>
       ELSE /\ merge' = [Chosen(pages, recs) EXCEPT !.pc = "create"]
            /\ mergeBtnDisabled' = TRUE
            /\ outcome' = Began("handleMerge")
    /\ UNCHANGED <<ledgerVars, files, nameVars, grid, dragVars, uploads, extract,
                   extractBtnDisabled, call>>

\* (mutant of EndMerge) no finally block: the button is reset at the end of the
\* try block only, so an export that failed leaves it disabled
EndMergeTryOnly(locals, alert, download) ==
    /\ merge' = IdleExport
    /\ mergeBtnDisabled' = (alert # NoAlert)
    /\ outcome' = Outcome("", alert, download, "merge", locals)
    /\ recs' = Collect(recs, pages, IdleExport, extract)
    /\ UNCHANGED <<pages, nextId, originalFiles, files, nameVars, grid, dragVars, uploads,
                   extract, extractBtnDisabled, gestures, call>>

\* catch / finally of handleMerge, or its successful end
EndMerge(locals, alert, download) ==
    /\ merge' = IdleExport
    /\ mergeBtnDisabled' = FALSE
    /\ outcome' = Outcome("", alert, download, "merge", locals)
    /\ recs' = Collect(recs, pages, IdleExport, extract)
    /\ UNCHANGED <<pages, nextId, originalFiles, files, nameVars, grid, dragVars, uploads,
                   extract, extractBtnDisabled, gestures, call>>

\* an export step that goes on
StepMerge(locals) ==
    /\ merge' = locals
    /\ outcome' = Quiet
    /\ UNCHANGED <<ledgerVars, files, nameVars, grid, dragVars, uploads, extract,
                   mergeBtnDisabled, extractBtnDisabled, gestures, call>>

\* mergedPdf is created; uniqueFileIndices; the first source file is read
MergeCreated ==
    /\ merge.pc = "create"
    /\ StepMerge(
                 [merge EXCEPT !.pc = "load", !.created = merge.created + 1,
                               !.uniq = UniqueFileIndices(EffList(merge), recs), !.j = 1])

\* PDFDocument.load resolved for uniqueFileIndices[j]: cached; then the next
\* source file, or the first page of the copy loop
MergeLoaded ==
    /\ merge.pc = "load"
    /\ merge.j \in 1..Len(merge.uniq)
    /\ LET fileIndex == merge.uniq[merge.j]
           file == OriginalFile(fileIndex)
           cached == [merge EXCEPT !.loaded = MapSet(merge.loaded, fileIndex, file),
                                   !.loads = merge.loads + 1]
       IN /\ file # Undefined
          /\ files[file] > 0
          /\ IF merge.j < Len(merge.uniq)
             THEN StepMerge( [cached EXCEPT !.j = merge.j + 1])
             ELSE StepMerge(
                            [AtPage(cached, EffList(merge), 0) EXCEPT !.pc = "copy"])

\* originalFile.arrayBuffer() or PDFDocument.load rejected (or originalFile is
\* undefined): the outer catch
MergeLoadFailed ==
    /\ merge.pc = "load"
    /\ EndMerge(merge, FailedAlert("merge", 0), NoDownload)

\* copyPages resolved: setRotation, addPage; then the next page, or save()
MergeCopied ==
    /\ merge.pc = "copy"
    /\ CopyPossible(merge.src, recs[merge.cur])
    /\ LET added == [merge EXCEPT !.doc = Append(merge.doc, CopiedPage(merge.src, recs[merge.cur])),
                                  !.ids = Append(merge.ids, merge.cur)]
       IN IF merge.i + 1 < Len(EffList(merge))
          THEN StepMerge( AtPage(added, EffList(merge), merge.i + 1))
          ELSE StepMerge( [added EXCEPT !.pc = "save"])

\* copyPages rejected or setRotation threw: "Failed on page i + 1"
MergeCopyFailed ==
    /\ merge.pc = "copy"
    /\ EndMerge(merge, FailedAlert("merge", merge.i + 1), NoDownload)

\* save() resolved: downloadFile(pdfBytes, `${filename}.pdf`)
MergeSaved ==
    /\ merge.pc = "save"
    /\ EndMerge([merge EXCEPT !.pc = "done"], NoAlert,
                PdfDownload("merge", BaseName(mergeFilename, "merged-document"), merge.doc))

\* save() rejected
MergeSaveFailed ==
    /\ merge.pc = "save"
    /\ EndMerge(merge, FailedAlert("merge", 0), NoDownload)

\* ---------------------------------------------------------------- extract
\* catch / finally of handleExtract, or its successful end
EndExtract(locals, alert, download) ==
    /\ extract' = IdleExport
    /\ extractBtnDisabled' = FALSE
    /\ outcome' = Outcome("", alert, download, "extract", locals)
    /\ recs' = Collect(recs, pages, merge, IdleExport)
    /\ UNCHANGED <<pages, nextId, originalFiles, files, nameVars, grid, dragVars, uploads,
                   merge, mergeBtnDisabled, gestures, call>>

StepExtract(locals) ==
    /\ extract' = locals
    /\ outcome' = Quiet
    /\ UNCHANGED <<ledgerVars, files, nameVars, grid, dragVars, uploads, merge,
                   mergeBtnDisabled, extractBtnDisabled, gestures, call>>

\* zip.file(name, bytes): a new entry, or the entry of that name replaced
ZipFile(zip, name, doc) ==
    IF \E k \in 1..Len(zip) : zip[k].name = name
    THEN [k \in 1..Len(zip) |-> IF zip[k].name = name THEN [name |-> name, doc |-> doc] ELSE zip[k]]
    ELSE Append(zip, [name |-> name, doc |-> doc])

\* (mutant of WorkingIndex) the position within the chosen pages
SubsetIndex(id) == FindIndex(EffList(extract), id)

\* pageManager.getAllPages().findIndex(p => p.id === page.id)
WorkingIndex(id) == FindIndex(pages, id)

\* handleExtract, to its first suspension (await originalFile.arrayBuffer());
\* mergeAsSingle is the state of the mergeSinglePdf checkbox
HandleExtract(mergeAsSingle) ==
    /\ UserCan
    /\ ~extractBtnDisabled
    /\ extract.pc = "idle"
    /\ gestures' = gestures + 1
    /\ IF NothingToExport(pages, recs)
       THEN /\ outcome' = Outcome("handleExtract", [op |-> "extract", msg |-> "nopages", page |-> 0],
                                  NoDownload, "none", IdleExport)
            /\ UNCHANGED <<extract, extractBtnDisabled>>
       ELSE /\ extract' = [Chosen(pages, recs) EXCEPT
                              !.pc = "load", !.single = mergeAsSingle,
                              !.uniq = UniqueFileIndices(ChosenPages(pages, recs), recs),
                              !.j = 1]
            /\ extractBtnDisabled' = TRUE
            /\ outcome' = Began("handleExtract")
    /\ UNCHANGED <<ledgerVars, files, nameVars, grid, dragVars, uploads, merge,
                   mergeBtnDisabled, call>>

\* PDFDocument.load resolved for uniqueFileIndices[j]; after the last one the
\* mode is taken: single document, one page, or archive
ExtractLoaded ==
    /\ extract.pc = "load"
    /\ extract.j \in 1..Len(extract.uniq)
    /\ LET fileIndex == extract.uniq[extract.j]
           file == OriginalFile(fileIndex)
           cached == [extract EXCEPT !.loaded = MapSet(extract.loaded, fileIndex, file),
                                     !.loads = extract.loads + 1]
       IN /\ file # Undefined
          /\ files[file] > 0
          /\ IF extract.j < Len(extract.uniq)
             THEN StepExtract( [cached EXCEPT !.j = extract.j + 1])
             ELSE IF extract.single
             THEN StepExtract( [cached EXCEPT !.pc = "create"])
             ELSE IF Len(EffList(extract)) = 1
             THEN StepExtract(
                              [AtPage(cached, EffList(extract), 0) EXCEPT !.pc = "copy1"])
             ELSE StepExtract(
                              [AtPage(cached, EffList(extract), 0) EXCEPT !.pc = "zcopy"])

ExtractLoadFailed ==
    /\ extract.pc = "load"
    /\ EndExtract(extract, FailedAlert("extract", 0), NoDownload)

\* single document: extractedPdf is created; the first page of the copy loop
ExtractCreated ==
    /\ extract.pc = "create"
    /\ StepExtract(
                   [AtPage([extract EXCEPT !.created = extract.created + 1],
                           EffList(extract), 0) EXCEPT !.pc = "copy"])

\* single document: copyPages resolved
ExtractCopied ==
    /\ extract.pc = "copy"
    /\ CopyPossible(extract.src, recs[extract.cur])
    /\ LET added == [extract EXCEPT
                        !.doc = Append(extract.doc, CopiedPage(extract.src, recs[extract.cur])),
                        !.ids = Append(extract.ids, extract.cur)]
       IN IF extract.i + 1 < Len(EffList(extract))
          THEN StepExtract( AtPage(added, EffList(extract), extract.i + 1))
          ELSE StepExtract( [added EXCEPT !.pc = "save"])

\* single document: "Failed on page i + 1"
ExtractCopyFailed ==
    /\ extract.pc = "copy"
    /\ EndExtract(extract, FailedAlert("extract", extract.i + 1), NoDownload)

ExtractSaved ==
    /\ extract.pc = "save"
    /\ EndExtract([extract EXCEPT !.pc = "done"], NoAlert,
                  PdfDownload("single", BaseName(extractFilename, "extracted-pages"), extract.doc))

ExtractSaveFailed ==
    /\ extract.pc = "save"
    /\ EndExtract(extract, FailedAlert("extract", 0), NoDownload)

\* one page: singlePdf is created and copyPages resolved; setRotation, addPage
ExtractOneCopied ==
    /\ extract.pc = "copy1"
    /\ CopyPossible(extract.src, recs[extract.cur])
    /\ StepExtract(
                   [extract EXCEPT !.pc = "save1", !.created = extract.created + 1,
                                   !.doc = <<CopiedPage(extract.src, recs[extract.cur])>>,
                                   !.ids = Append(extract.ids, extract.cur)])

\* one page: no try around the copy, so the outer catch and no page number
ExtractOneCopyFailed ==
    /\ extract.pc = "copy1"
    /\ EndExtract(extract, FailedAlert("extract", 0), NoDownload)

\* one page: save() resolved; the name takes the page's position in getAllPages()
ExtractOneSaved ==
    /\ extract.pc = "save1"
    /\ LET name == PageFileName(BaseName(extractFilename, "extracted-page"),
                                WorkingIndex(extract.cur))
       IN EndExtract([extract EXCEPT !.pc = "done"], NoAlert,
                     [kind |-> "page", base |-> name.base, suffix |-> name.suffix,
                      num |-> name.num, ext |-> name.ext, doc |-> extract.doc, zip |-> <<>>])

ExtractOneSaveFailed ==
    /\ extract.pc = "save1"
    /\ EndExtract(extract, FailedAlert("extract", 0), NoDownload)

\* archive: singlePdf is created and copyPages resolved; setRotation, addPage
ExtractZipCopied ==
    /\ extract.pc = "zcopy"
    /\ CopyPossible(extract.src, recs[extract.cur])
    /\ StepExtract(
                   [extract EXCEPT !.pc = "zsave", !.created = extract.created + 1,
                                   !.doc = <<CopiedPage(extract.src, recs[extract.cur])>>,
                                   !.ids = Append(extract.ids, extract.cur)])

\* archive: save() resolved; zip.file(name, bytes); the next page, or generateAsync
ExtractZipSaved ==
    /\ extract.pc = "zsave"
    /\ LET name == PageFileName(BaseName(extractFilename, "extracted-pages"),
                                WorkingIndex(extract.cur))
           filed == [extract EXCEPT !.zip = ZipFile(extract.zip, name, extract.doc),
                                    !.doc = <<>>]
       IN IF extract.i + 1 < Len(EffList(extract))
          THEN StepExtract(
                           [AtPage(filed, EffList(extract), extract.i + 1) EXCEPT !.pc = "zcopy"])
          ELSE StepExtract( [filed EXCEPT !.pc = "zgen"])

\* archive: create, copyPages, setRotation or save failed: "Failed on PDF i + 1"
ExtractZipFailed ==
    /\ extract.pc \in {"zcopy", "zsave"}
    /\ EndExtract(extract, FailedAlert("extract", extract.i + 1), NoDownload)

\* archive: generateAsync resolved: downloadFile(zipBlob, `${filename}_extract.zip`)
ExtractZipGenerated ==
    /\ extract.pc = "zgen"
    /\ EndExtract([extract EXCEPT !.pc = "done"], NoAlert,
                  [kind |-> "zip", base |-> BaseName(extractFilename, "extracted-pages"),
                   suffix |-> "_extract", num |-> 0, ext |-> "zip", doc |-> <<>>,
                   zip |-> extract.zip])

ExtractZipGenerateFailed ==
    /\ extract.pc = "zgen"
    /\ EndExtract(extract, FailedAlert("extract", 0), NoDownload)

\* --------------------------------------------------------------------- Next
Next ==
    \/ \E batch \in BatchInputs : ProcessFiles(batch)
    \/ \E b \in 1..Len(uploads) : LoadPDF(b)
    \/ \E b \in 1..Len(uploads) : AddPageToGrid(b)
    \/ \E id \in Range(grid) : ClickRotate(id)
    \/ \E id \in Range(grid) : ChangeCheckbox(id)
    \/ \E checked \in BOOLEAN : HandleSelectAll(checked)
    \/ \E id \in Range(grid) : ClickDelete(id)
    \/ \E id \in Range(grid) : HandleDragStart(id)
    \/ \E target \in Range(grid) : HandleDrop(target)
    \/ HandleDragEnd
    \/ HandleMerge
    \/ MergeCreated
    \/ MergeLoaded
    \/ MergeLoadFailed
    \/ MergeCopied
    \/ MergeCopyFailed
    \/ MergeSaved
    \/ MergeSaveFailed
    \/ \E mergeAsSingle \in BOOLEAN : HandleExtract(mergeAsSingle)
    \/ ExtractLoaded
    \/ ExtractLoadFailed
    \/ ExtractCreated
    \/ ExtractCopied
    \/ ExtractCopyFailed
    \/ ExtractSaved
    \/ ExtractSaveFailed
    \/ ExtractOneCopied
    \/ ExtractOneCopyFailed
    \/ ExtractOneSaved
    \/ ExtractOneSaveFailed
    \/ ExtractZipCopied
    \/ ExtractZipSaved
    \/ ExtractZipFailed
    \/ ExtractZipGenerated
    \/ ExtractZipGenerateFailed

Spec == Init /\ [][Next]_vars

\* ------------------------------------------------------------ LedgerSpec
\* PDFPageManager alone, its methods called directly with any arguments.

CanCall == call.n < MaxCalls

appVars == <<files, nameVars, grid, dragVars, uploads, exportVars, outcome, gestures>>

\* an arrow function reading p.id or p.selected meets an undefined entry before
\* position k (1-based; Len + 1 for a full pass): a TypeError
ThrowsBefore(ps, k) == \E m \in 1..(k - 1) : ps[m] = Undefined

\* find(p => p.id === id) throws: an undefined entry comes before the first match
FindThrows(ps, id) ==
    IF FindIndex(ps, id) >= 0 THEN ThrowsBefore(ps, FindIndex(ps, id) + 1)
    ELSE ThrowsBefore(ps, Len(ps) + 1)

CallAddPage(fileIndex, pageNum, rotation) ==
    /\ CanCall
    /\ nextId <= MaxRecords
    /\ pages' = Append(pages, AddPageId(nextId))
    /\ recs' = [id \in DOMAIN recs \cup {AddPageId(nextId)} |->
                  IF id = AddPageId(nextId)
                  THEN NewRecord(fileIndex + 1, fileIndex, pageNum, rotation)
                  ELSE recs[id]]
    /\ nextId' = nextId + 1
    /\ call' = Called("addPage", fileIndex, pageNum, FALSE)
    /\ UNCHANGED <<originalFiles, appVars>>

CallRemovePage(id) ==
    /\ CanCall
    /\ IF ThrowsBefore(pages, Len(pages) + 1)
       THEN /\ call' = Called("removePage", id, 0, TRUE)
            /\ UNCHANGED <<pages, recs>>
       ELSE /\ pages' = RemovePage(pages, id)
            /\ recs' = Collect(recs, pages', IdleExport, IdleExport)
            /\ call' = [Called("removePage", id, 0, FALSE) EXCEPT
                           !.retired = call.retired \cup ({id} \cap Range(pages))]
    /\ UNCHANGED <<nextId, originalFiles, appVars>>

CallRotatePage(id, degrees) ==
    /\ CanCall
    /\ IF FindThrows(pages, id)
       THEN /\ call' = Called("rotatePage", id, degrees, TRUE)
            /\ UNCHANGED recs
       ELSE /\ recs' = IF HasPage(pages, id) THEN WithRotation(recs, id, degrees) ELSE recs
            /\ call' = [Called("rotatePage", id, degrees, FALSE) EXCEPT
                           !.streak = Streak(id, degrees).streak,
                           !.before = Streak(id, degrees).before]
    /\ UNCHANGED <<pages, nextId, originalFiles, appVars>>

CallToggleSelection(id) ==
    /\ CanCall
    /\ IF FindThrows(pages, id)
       THEN /\ call' = Called("toggleSelection", id, 0, TRUE)
            /\ UNCHANGED recs
       ELSE /\ recs' = IF HasPage(pages, id)
                       THEN [recs EXCEPT ![id].selected = ~recs[id].selected] ELSE recs
            /\ call' = Called("toggleSelection", id, 0, FALSE)
    /\ UNCHANGED <<pages, nextId, originalFiles, appVars>>

\* forEach stops at the first undefined entry, the earlier records already set
CallSelectAll(selected) ==
    /\ CanCall
    /\ LET stop == IF Undefined \in Range(pages) THEN FindIndex(pages, Undefined) ELSE Len(pages)
       IN recs' = [id \in DOMAIN recs |->
                     IF \E k \in 1..stop : pages[k] = id
                     THEN [recs[id] EXCEPT !.selected = selected] ELSE recs[id]]
    /\ call' = Called("selectAll", 0, 0, Undefined \in Range(pages))
    /\ UNCHANGED <<pages, nextId, originalFiles, appVars>>

CallReorderPages(oldIndex, newIndex) ==
    /\ CanCall
    /\ pages' = ReorderPages(pages, oldIndex, newIndex)
    /\ call' = Called("reorderPages", oldIndex, newIndex, FALSE)
    /\ UNCHANGED <<recs, nextId, originalFiles, appVars>>

CallClear ==
    /\ CanCall
    /\ pages' = <<>>
    /\ recs' = <<>>
    /\ originalFiles' = <<>>
    /\ nextId' = 1
    /\ call' = [Called("clear", 0, 0, FALSE) EXCEPT !.retired = {}]
    /\ UNCHANGED appVars

\* degrees a caller may pass
DegreeInputs == {RotateStep, -RotateStep}

LedgerNext ==
    \/ \E pageNum \in 1..MaxPages : CallAddPage(0, pageNum, 0)
    \/ \E id \in 1..MaxRecords : CallRemovePage(id)
    \/ \E id \in 1..MaxRecords, degrees \in DegreeInputs : CallRotatePage(id, degrees)
    \/ \E id \in 1..MaxRecords : CallToggleSelection(id)
    \/ \E selected \in BOOLEAN : CallSelectAll(selected)
    \/ \E oldIndex \in -1..Len(pages), newIndex \in -1..Len(pages) :
          CallReorderPages(oldIndex, newIndex)
    \/ CallClear

LedgerSpec == Init /\ [][LedgerNext]_vars

\* ------------------------------------------------------------ RotateSpec
\* rotatePage(id, 90) called over and over on a ledger of two records whose
\* rotations are any of the values the record format allows; id 3 is absent.

\* the rotations the record format allows: 0, 90, 180, 270
Rotations == {k * RotateStep : k \in 0..((FullTurn \div RotateStep) - 1)}

RotateInit ==
    /\ pages = <<1, 2>>
    /\ \E r1 \in Rotations, r2 \in Rotations :
          recs = <<NewRecord(1, 0, 1, r1), NewRecord(1, 0, 2, r2)>>
    /\ nextId = 3
    /\ originalFiles = <<>>
    /\ files = <<>>
    /\ mergeFilename = 0
    /\ extractFilename = 0
    /\ grid = <<>>
    /\ draggedElement = Undefined
    /\ draggedIndex = NullIndex
    /\ dragPhase = "none"
    /\ uploads = <<>>
    /\ merge = IdleExport
    /\ extract = IdleExport
    /\ mergeBtnDisabled = FALSE
    /\ extractBtnDisabled = FALSE
    /\ outcome = Quiet
    /\ gestures = 0
    /\ call = NoCall

RotateNext == \E id \in 1..MaxRecords : CallRotatePage(id, RotateStep)

RotateSpec == RotateInit /\ [][RotateNext]_vars

\* ================================================================== claims
Count(s, x) == Cardinality({k \in 1..Len(s) : s[k] = x})

InRange(index, len) == 0 <= index /\ index < len

\* C1: for every record of the ledger, originalFiles[record.fileIndex] is the
\* uploaded file the record's page was decoded from, also for records of a second
\* or later upload batch.
C1_FileIndexNamesSource ==
    \A id \in Range(pages) : OriginalFile(recs[id].fileIndex) = recs[id].file

\* C2: under any sequence of addPage and removePage calls with no clear in
\* between, no two records share an id, every id handed out is greater than every
\* id handed out before, and a removed record's id is never in the ledger again.
C2_IdsUniqueIncreasingNeverReused ==
    /\ [](\A a, b \in 1..Len(pages) :
             (a # b /\ pages[a] # Undefined) => pages[a] # pages[b])
    /\ [](Range(pages) \cap call.retired = {})
    /\ [][call'.op = "addPage" =>
             \A old \in (Range(pages) \cup call.retired) \ {Undefined} :
                 pages'[Len(pages')] > old]_vars

\* C2 witness: a record was removed and a record was created after that
C2_Witness ==
    /\ call.op = "addPage"
    /\ call.retired # {}
    /\ Len(pages) >= 2

\* C3: a reorderPages(fromIndex, toIndex) call with both positions in
\* [0, length) keeps the length of the ledger and keeps every entry exactly as
\* often as it was there (every record id exactly once).
C3_ReorderKeepsRecords ==
    [][(/\ call'.op = "reorderPages"
        /\ call'.n = call.n + 1
        /\ InRange(call'.a, Len(pages))
        /\ InRange(call'.b, Len(pages)))
       => /\ Len(pages') = Len(pages)
          /\ \A x \in Range(pages) \cup Range(pages') : Count(pages', x) = Count(pages, x)
          /\ \A x \in Range(pages) \ {Undefined} : Count(pages, x) = 1]_vars

\* C3 witness: three records, one of them moved to another position
C3_Witness ==
    /\ call.op = "reorderPages"
    /\ Len(pages) = 3
    /\ InRange(call.a, 3) /\ InRange(call.b, 3) /\ call.a # call.b
    /\ Undefined \notin Range(pages)
    /\ pages[1] > pages[2]

\* ------------------------------------------------- the choice, stated apart
\* the records an export is to work on: the selected ones, or all when none is
TargetIds ==
    IF \E id \in Range(pages) : recs[id].selected
    THEN {id \in Range(pages) : recs[id].selected}
    ELSE Range(pages)

\* 1-based position in the ledger
Pos(id) == CHOOSE p \in 1..Len(pages) : pages[p] = id

\* the k-th of them in ledger order
KthChosen(k) ==
    CHOOSE x \in TargetIds : Cardinality({y \in TargetIds : Pos(y) < Pos(x)}) = k - 1

\* the copy of a record's own page: page originalPageNum of the file it was
\* decoded from, its rotation set iff non-zero
OwnCopy(id) ==
    [file |-> recs[id].file, page |-> recs[id].originalPageNum,
     setRotation |-> recs[id].rotation # 0,
     degrees |-> IF recs[id].rotation # 0 THEN recs[id].rotation ELSE 0]

\* distinct fileIndex values among the records of a list
DistinctFiles(list) == Cardinality({recs[list[k]].fileIndex : k \in 1..Len(list)})

\* C4: a merge that runs to completion (no other handler in between) delivers
\* one document whose i-th page is the copy of the i-th chosen record's own
\* source page, in ledger order, its rotation set iff non-zero.
C4_MergeOutput ==
    (outcome.download.kind = "merge" /\ outcome.locals.quiet)
    => /\ outcome.locals.created = 1
       /\ Len(outcome.download.doc) = Cardinality(TargetIds)
       /\ \A k \in 1..Len(outcome.download.doc) :
             outcome.download.doc[k] = OwnCopy(KthChosen(k))

\* C5: the records a merge or an extract works on are the selected records in
\* ledger order when at least one is selected, and the whole ledger in order
\* otherwise (while no other handler ran since the click).
C5_ChosenRecords ==
    \A e \in {merge, extract} :
        (e.pc # "idle" /\ e.quiet)
        => /\ Len(EffList(e)) = Cardinality(TargetIds)
           /\ \A k \in 1..Len(EffList(e)) : EffList(e)[k] = KthChosen(k)
           /\ e.pc \in {"copy", "copy1", "save1", "zcopy", "zsave"} => e.cur = KthChosen(e.i + 1)
           /\ e.pc \in {"copy", "save"} => Len(e.doc) = (IF e.pc = "save" THEN e.i + 1 ELSE e.i)

\* C5 witness: a merge at its copy loop, working on the one selected record, the
\* second of two
C5_Witness ==
    /\ merge.pc = "copy" /\ merge.quiet
    /\ Len(pages) = 2
    /\ merge.list = <<pages[2]>>
    /\ merge.cur = pages[2]

C7_PageNameIsWorkingPosition ==
    /\ outcome.download.kind = "page"
       => /\ outcome.download.suffix = "_page-"
          /\ outcome.download.ext = "pdf"
          /\ outcome.download.base.file = extractFilename
          /\ outcome.locals.cur \in Range(pages)
             => /\ outcome.download.num \in 1..Len(pages)
                /\ pages[outcome.download.num] = outcome.locals.cur
    /\ (/\ outcome.ended = "extract" /\ outcome.locals.pc = "done"
        /\ outcome.locals.quiet /\ ~outcome.locals.single
        /\ Cardinality(TargetIds) = 1)
       => /\ outcome.download.kind = "page"
          /\ outcome.locals.cur \in TargetIds

\* C7 witness: the second of two pages was the one chosen record
C7_Witness ==
    /\ outcome.download.kind = "page"
    /\ outcome.locals.quiet
    /\ Len(pages) = 2
    /\ outcome.download.num = 2
    /\ outcome.locals.list = <<pages[2]>>

\* C8: per-page extract of more than one chosen record (no other handler in
\* between) delivers one archive {filename}_extract.zip with one entry per chosen
\* record, in order, entry k named {filename}_page-{p}.pdf for the record's
\* 1-based working position p and holding the copy of that record's own page.
C8_ArchiveEntries ==
    /\ (outcome.download.kind = "zip" /\ outcome.locals.quiet)
       => /\ outcome.download.suffix = "_extract"
          /\ outcome.download.ext = "zip"
          /\ outcome.download.base.file = extractFilename
          /\ Len(outcome.download.zip) = Cardinality(TargetIds)
          /\ \A k \in 1..Len(outcome.download.zip) :
                /\ outcome.download.zip[k].name.suffix = "_page-"
                /\ outcome.download.zip[k].name.num = Pos(KthChosen(k))
                /\ outcome.download.zip[k].doc = <<OwnCopy(KthChosen(k))>>
    /\ (/\ outcome.ended = "extract" /\ outcome.locals.pc = "done"
        /\ outcome.locals.quiet /\ ~outcome.locals.single
        /\ Cardinality(TargetIds) > 1)
       => outcome.download.kind = "zip"

\* the positions of an export at which one chosen page is copied, rotated or
\* serialized
PageSteps == {"copy", "copy1", "save1", "zcopy", "zsave"}

\* C9: when copying, rotating or serializing a chosen page fails, the export
\* ends with nothing delivered and with an alert that names the page by its
\* 1-based processing index.
C9_FailureNamesPage ==
    (outcome.ended # "none" /\ outcome.locals.pc \in PageSteps)
    => /\ outcome.download = NoDownload
       /\ outcome.alert.msg = "failed"
       /\ outcome.alert.page = outcome.locals.i + 1

\* C10: merge or extract triggered on an empty ledger shows the no-pages alert
\* and does nothing else: no export is begun (nothing loaded, nothing created),
\* nothing is delivered, the button stays enabled.
C10_EmptyLedger ==
    /\ (outcome.by = "handleMerge" /\ Len(pages) = 0)
       => /\ outcome.alert = [op |-> "merge", msg |-> "nopages", page |-> 0]
          /\ outcome.download = NoDownload
          /\ merge = IdleExport
          /\ ~mergeBtnDisabled
    /\ (outcome.by = "handleExtract" /\ Len(pages) = 0)
       => /\ outcome.alert = [op |-> "extract", msg |-> "nopages", page |-> 0]
          /\ outcome.download = NoDownload
          /\ extract = IdleExport
          /\ ~extractBtnDisabled

\* C10 witness: merge was clicked after every page had been deleted
C10_Witness ==
    /\ outcome.by = "handleMerge"
    /\ outcome.alert.msg = "nopages"
    /\ Len(pages) = 0
    /\ nextId > 1

\* an export invocation is between its button click and its end
Running(e) == e.pc # "idle"

\* C11: at most one export is in progress at any time: while a merge or an
\* extract runs, no other merge or extract (of either kind) has begun.
C11_OneExportAtATime == ~(Running(merge) /\ Running(extract))

\* the pages an ended export delivered: of the document, or the entries of the archive
Delivered(d) == IF d.kind = "zip" THEN Len(d.zip) ELSE Len(d.doc)

\* C12: the pages of an export's output are exactly the records chosen when the
\* export started, each copied exactly once and in the order they had then, also
\* when other handlers (drag reorder, delete, rotate, a further upload) ran at
\* the export's suspension points.
C12_OutputIsStartChoice ==
    /\ \A e \in {merge, extract} :
          Running(e) => /\ Len(e.ids) <= Len(e.start)
                        /\ e.ids = SubSeq(e.start, 1, Len(e.ids))
    /\ (outcome.ended # "none" /\ outcome.locals.pc = "done")
       => /\ outcome.locals.ids = outcome.locals.start
          /\ Delivered(outcome.download) = Len(outcome.locals.start)

\* C13: after any sequence of rotatePage calls with positive or negative
\* multiples of 90, every record's rotation is one of 0, 90, 180, 270 (the
\* non-negative residue modulo 360).
C13_RotationIsResidue == \A id \in DOMAIN recs : recs[id].rotation \in Rotations

\* C14: rotatePage(id, 90) applied four times in a row to a record with any
\* rotation in {0, 90, 180, 270} brings that record's rotation back to where it
\* started and changes no other record; rotatePage on an absent id changes
\* nothing.
C14_FourRotationsIdentity ==
    /\ []((call.op = "rotatePage" /\ call.a \in Range(pages)
           /\ call.streak * RotateStep = FullTurn)
          => recs = call.before)
    /\ [][(call'.op = "rotatePage" /\ call'.n = call.n + 1 /\ call'.a \notin Range(pages))
          => UNCHANGED <<pages, recs, nextId, originalFiles>>]_vars

\* C14 witness: four calls in a row on record 1, which started at 270 next to a
\* record at 90, and the wrap happened on the first of them
C14_Witness ==
    /\ call.op = "rotatePage" /\ call.a = 1
    /\ call.streak * RotateStep = FullTurn
    /\ call.before[1].rotation = 270
    /\ call.before[2].rotation = 90

\* C15: reorderPages(fromIndex, toIndex) with either position outside
\* [0, length) fails with an error and leaves the ledger sequence as it was: same
\* length, no undefined entry inserted.
C15_ReorderOutOfRangeFails ==
    [][(/\ call'.op = "reorderPages"
        /\ call'.n = call.n + 1
        /\ ~(InRange(call'.a, Len(pages)) /\ InRange(call'.b, Len(pages))))
       => /\ call'.threw
          /\ pages' = pages]_vars

\* a comes before b in sequence s
Before(s, a, b) == FindIndex(s, a) < FindIndex(s, b)

\* C16: removePage(X) on a ledger of records removes only the record with id X:
\* every other record keeps its fields and its place relative to the others,
\* originalFiles and the id counter are untouched, getPage(X) is absent
\* afterwards; with X absent nothing changes; no error is raised either way.
C16_RemovePageFrame ==
    [][(/\ call'.op = "removePage"
        /\ call'.n = call.n + 1
        /\ Undefined \notin Range(pages))
       => /\ ~call'.threw
          /\ Range(pages') = Range(pages) \ {call'.a}
          /\ Len(pages') = Cardinality(Range(pages'))
          /\ \A a, b \in Range(pages') : Before(pages', a, b) <=> Before(pages, a, b)
          /\ \A id \in Range(pages') : recs'[id] = recs[id]
          /\ ~HasPage(pages', call'.a)
          /\ originalFiles' = originalFiles
          /\ nextId' = nextId
          /\ call'.a \notin Range(pages) => (pages' = pages /\ recs' = recs)]_vars

\* C16 witness: a record was removed from a reordered ledger, and two records
\* are left, the younger one first
C16_Witness ==
    /\ call.op = "removePage"
    /\ call.retired = {call.a}
    /\ Len(pages) = 2
    /\ Undefined \notin Range(pages)
    /\ pages[1] > pages[2]

\* C17: an upload batch with at least one non-PDF file is answered at once with
\* the only-PDF alert and nothing of the batch is ingested: the ledger sequence,
\* its records, originalFiles and the id counter stay as they were, and no file
\* of the batch is read.
C17_NonPdfBatchRejected ==
    [][\A batch \in BatchInputs :
          (ProcessFiles(batch) /\ \E k \in 1..Len(batch) : batch[k] = -1)
          => /\ outcome'.alert = [op |-> "upload", msg |-> "notpdf", page |-> 0]
             /\ UNCHANGED <<pages, recs, nextId, originalFiles, files, uploads, nameVars>>]_vars

\* C17 witness: a batch was rejected while the ledger already held a page
C17_Witness ==
    /\ outcome.alert = [op |-> "upload", msg |-> "notpdf", page |-> 0]
    /\ Len(pages) > 0
    /\ originalFiles # <<>>

\* C18: every error raised while an upload, a merge or an extract is handled
\* is shown to the user: an export that ends without its download ends with an
\* alert, and when an uploaded file's bytes cannot be decoded the step that
\* meets the failure shows an alert.
C18_ErrorsAreShown ==
    /\ []((outcome.ended # "none" /\ outcome.locals.pc # "done")
          => outcome.alert.msg = "failed")
    /\ [][\A b \in 1..Len(uploads) :
             (uploads[b].pc # "failed" /\ uploads'[b].pc = "failed")
             => outcome'.alert # NoAlert]_vars

\* the records of file f, by page number, are all in the ledger
AllPagesIn(f) ==
    \A p \in 1..files[f] :
        \E id \in Range(pages) : recs[id].file = f /\ recs[id].originalPageNum = p

\* C19: when file k of a batch cannot be decoded, the step that meets the
\* failure leaves the ledger as it was, so the records of the batch's earlier
\* files stay, in their order (all of them, if the user deleted nothing); no
\* record is ever created for the undecodable file; and every record's fileIndex
\* is an index of originalFiles.
C19_PartialBatchStays ==
    /\ [](\A id \in DOMAIN recs : files[recs[id].file] > 0)
    /\ [](\A id \in Range(pages) : InRange(recs[id].fileIndex, Len(originalFiles)))
    /\ [][\A b \in 1..Len(uploads) :
             (uploads[b].pc # "failed" /\ uploads'[b].pc = "failed")
             => /\ UNCHANGED <<pages, recs, nextId, originalFiles>>
                /\ Len(pages) = nextId - 1
                   => \A j \in 1..(uploads[b].k - 1) : AllPagesIn(uploads[b].files[j])]_vars

\* C19 witness: the second file of a batch failed and the 2 pages of the first
\* are in the ledger, in their order
C19_Witness ==
    \E b \in 1..Len(uploads) :
        /\ uploads[b].pc = "failed"
        /\ uploads[b].k = 2
        /\ Len(pages) = 2
        /\ \A p \in 1..2 : /\ recs[pages[p]].file = uploads[b].files[1]
                           /\ recs[pages[p]].originalPageNum = p

\* what the code copies for the k-th record of the ledger
LedgerCopy(k) == CopiedPage(OriginalFile(recs[pages[k]].fileIndex), recs[pages[k]])

\* the output of an export of the whole ledger, which does not look at any
\* record's selected flag: kind by the button, the checkbox and the page count
WholeLedgerOutput(ended, single) ==
    LET doc == [k \in 1..Len(pages) |-> LedgerCopy(k)]
    IN IF ended = "merge"
       THEN PdfDownload("merge", BaseName(mergeFilename, "merged-document"), doc)
       ELSE IF single
       THEN PdfDownload("single", BaseName(extractFilename, "extracted-pages"), doc)
       ELSE IF Len(pages) = 1
       THEN [kind |-> "page", base |-> BaseName(extractFilename, "extracted-page"),
             suffix |-> "_page-", num |-> 1, ext |-> "pdf", doc |-> doc, zip |-> <<>>]
       ELSE [kind |-> "zip", base |-> BaseName(extractFilename, "extracted-pages"),
             suffix |-> "_extract", num |-> 0, ext |-> "zip", doc |-> <<>>,
             zip |-> [k \in 1..Len(pages) |->
                        [name |-> PageFileName(BaseName(extractFilename, "extracted-pages"), k - 1),
                         doc |-> <<LedgerCopy(k)>>]]]

NoneSelected == \A id \in Range(pages) : ~recs[id].selected
AllSelected == \A id \in Range(pages) : recs[id].selected

\* C20: on a non-empty ledger an export started with no record selected and the
\* same export started with every record selected deliver the same output: both
\* deliver the output of the whole ledger, the same pages in the same order with
\* the same rotations under the same names (no other handler in between).
C20_NoneOrAllSelected ==
    (/\ outcome.ended # "none" /\ outcome.locals.pc = "done" /\ outcome.locals.quiet
     /\ NoneSelected \/ AllSelected)
    => outcome.download = WholeLedgerOutput(outcome.ended, outcome.locals.single)

\* C20 witness: an export of two pages, both selected, was delivered
C20_Witness ==
    /\ outcome.ended # "none" /\ outcome.locals.pc = "done" /\ outcome.locals.quiet
    /\ Len(pages) = 2
    /\ AllSelected
    /\ ~outcome.locals.live

\* C21: between handler steps the thumbnails of the grid are in ledger order:
\* the k-th thumbnail is the thumbnail of the k-th record of the ledger among
\* those whose thumbnail has been appended.
C21_GridInLedgerOrder == grid = SelectSeqBy(pages, Range(grid))

\* the positions of an export at which copyPages is awaited for the record cur
CopySteps == {"copy", "copy1", "zcopy"}

\* loadedPdfs.has(fileIndex)
Cached(loaded, fileIndex) == \E k \in 1..Len(loaded) : loaded[k][1] = fileIndex

\* C22: at every page-copy step of an export the export's cache holds a
\* document for the fileIndex of the record being copied, and the lookup has
\* yielded it, also when an upload appended records while the export was
\* suspended.
C22_CacheHoldsSource ==
    \A e \in {merge, extract} :
        e.pc \in CopySteps
        => /\ Cached(e.loaded, recs[e.cur].fileIndex)
           /\ e.src # Undefined

\* ---------------------------------------------------------------- liveness
\* an awaited call of a running handleMerge settles (resolves or rejects) and
\* the handler runs on to its next await or to its end
MergeSettles ==
    \/ MergeCreated
    \/ MergeLoaded
    \/ MergeLoadFailed
    \/ MergeCopied
    \/ MergeCopyFailed
    \/ MergeSaved
    \/ MergeSaveFailed

\* an awaited call of a running handleExtract settles and the handler runs on
ExtractSettles ==
    \/ ExtractLoaded
    \/ ExtractLoadFailed
    \/ ExtractCreated
    \/ ExtractCopied
    \/ ExtractCopyFailed
    \/ ExtractSaved
    \/ ExtractSaveFailed
    \/ ExtractOneCopied
    \/ ExtractOneCopyFailed
    \/ ExtractOneSaved
    \/ ExtractOneSaveFailed
    \/ ExtractZipCopied
    \/ ExtractZipSaved
    \/ ExtractZipFailed
    \/ ExtractZipGenerated
    \/ ExtractZipGenerateFailed

\* the app when every awaited library call eventually settles: the event loop
\* runs the continuation of a settled promise, so a suspended export is not
\* left waiting for ever; which way a call settles is not prescribed
LiveSpec == Spec /\ WF_vars(MergeSettles) /\ WF_vars(ExtractSettles)

\* C23: whenever the merge button is disabled it is eventually enabled again,
\* and whenever the extract button is disabled it is eventually enabled again,
\* whichever way the awaited calls of the export settle.
C23_ButtonReenabled ==
    /\ mergeBtnDisabled ~> ~mergeBtnDisabled
    /\ extractBtnDisabled ~> ~extractBtnDisabled

\* C23 witness: a merge has just ended by a failure of its last awaited call
\* (serialize) and the merge button is enabled again
C23_Witness ==
    /\ outcome.ended = "merge"
    /\ outcome.alert.msg = "failed"
    /\ outcome.locals.pc = "save"
    /\ ~mergeBtnDisabled

====
